---------------------------- MODULE Spec2Model ----------------------------
(***************************************************************************)
(* A model of bjsonrpc's connection engine (src/bjsonrpc/connection.py):   *)
(* the dispatcher (read_and_dispatch, dispatch_item_threaded,              *)
(* dispatch_item_single and its helpers), the hosted-object table          *)
(* (_dump_remoteobject, _dispatch_delete), the id allocator (get_id) and   *)
(* the writer pump (write, write_thread, write_now, write_line).           *)
(*                                                                         *)
(* Granularity.  A thread may be pre-empted between any two accesses to    *)
(* state that another thread can touch (the hosted-object table, the       *)
(* object's __remoteobjects__ map, the write queue, the semaphore, the id  *)
(* counter) and inside every call into user code (a handler, a generator,  *)
(* _shutdown).  Steps that touch only thread-local state are folded into   *)
(* the neighbouring step.                                                  *)
(*                                                                         *)
(* Values.  A JSON null id is NullId, a null result NullResult, a null     *)
(* error NullError.  The text json.dumps produces for a response is        *)
(* modelled by the response record itself, with a hosted object replaced   *)
(* by its __remoteobject__ hint.  On the socket a frame is two units, its  *)
(* body and its newline.                                                   *)
(***************************************************************************)
EXTENDS Integers, Sequences, FiniteSets, TLC

\* ------------------------------------------------------------- bounds
\* Inbound items (requests) dispatched in one run.
MaxItems == 2
\* Values one generator handler yields at most.
MaxYield == 2
\* Threads calling get_id() or write() concurrently.
MaxThreads == 2
\* Calls of get_id() one thread makes.
MaxCalls == 3
\* Texts handed to write() by all the threads together.
MaxWrites == 4
\* Calls of close() by all the threads together.
MaxCloses == 3
\* Texts handed to write() while close() is being called.
MaxLate == 2
\* Inbound frames and socket events serve() meets in one run.
MaxFrames == 3
\* Messages the peer writes in one run, and characters in one message.
MaxMsgs == 2
MaxMsgLen == 1
\* Calls the reading thread makes in one run.
MaxReads == 3
\* Positional arguments of one proxy() call.
MaxArgs == 2
\* Calls the application thread makes through proxies, proxy() and handles.
MaxProxyCalls == 2
\* Response frames the reading thread dispatches in one run.
MaxResponses == 3

VARIABLES
    threaded,       \* bjsonrpc_options['threaded'], read at construction
    id,             \* Connection._id
    getid_lock,     \* Connection.getid_lock: 0 free, else the holding thread
    objects,        \* Connection._objects: name -> hosted object
    remoteobjects,  \* obj.__remoteobjects__[self]: object -> name or NoName
    write_thread_queue,      \* Connection.write_thread_queue
    write_thread_semaphore,  \* Connection.write_thread_semaphore (its count)
    pump,           \* write_thread's position: "acquire" or "pop"
    wbuffer,        \* Connection._wbuffer, in units
    sock,           \* what the socket accepted so far, in units
    items,          \* the inbound items dispatched so far, each with the
                    \* position and the locals of its dispatch_item_single
    pending,        \* elements of the frame being dispatched still to go
    received,       \* history: elements of all the frames read so far
    enqueued,       \* history: every response handed to write(), in order
    known,          \* history: the names the peer was ever told
    callers,        \* the threads calling get_id(): position and locals
    returned,       \* history: get_id() results, in order of completion
    writers,        \* the threads calling write(): position and count
    scenario,       \* what the peer sends in this run
    connection_status,  \* Connection.connection_status
    sck,            \* Connection._sck: "open", "shutdown" or "closed"
    events,         \* the abort items' events that are set
    handler_shutdowns,  \* history: calls of self.handler._shutdown()
    requests,       \* Connection._requests: the ids registered
    handles,        \* the Request handles made so far: id -> its state
    closers,        \* the threads calling close(): position and locals
    close_log,      \* history: the calls of close() that returned
    serve,          \* the thread in serve(): position and what ended it
    seen,           \* history: what each read of serve() met, in order
    rbuffer,        \* Connection._buffer, in bytes
    wire,           \* bytes the peer wrote that have not arrived yet
    avail,          \* bytes that arrived and no recv() has taken yet
    reader,         \* the thread reading: position and locals
    lines,          \* history: what the reads returned, in order
    sent,           \* history: the messages the peer wrote, in order
    proxied         \* a proxy() call: its arguments, its frame and what
                    \* _extract_params made of the frame

vars == <<threaded, id, getid_lock, objects, remoteobjects,
          write_thread_queue, write_thread_semaphore, pump, wbuffer, sock,
          items, pending, received, enqueued, known, callers, returned,
          writers, scenario, connection_status, sck, events,
          handler_shutdowns, requests, handles, closers, close_log,
          serve, seen, rbuffer, wire, avail, reader, lines, sent, proxied>>

\* The state of the reading side and of a proxy() call.
apartVars == <<serve, seen, rbuffer, wire, avail, reader, lines, sent,
               proxied>>

\* What is fixed at construction.
configVars == <<threaded, scenario>>

\* The state close() and the pending requests live in.
lifeVars == <<connection_status, sck, events, handler_shutdowns, requests,
              handles, closers, close_log>>

\* What the dispatcher, get_id, write() and the pump leave alone.
outerVars == <<configVars, lifeVars, apartVars>>

\* ------------------------------------------------------------- values
NullId == <<>>
NullError == "null"
\* The id the peer gives its k-th request when it gives one.
IdOf(k) == <<10 + k>>

\* A target "obj.method" names obj by its instance name <<class, number>>; a
\* method name without a dot names the root handler.
Root == <<"", 0>>
NoName == <<"", 0>>
Bogus == <<"zz", 0>>

\* The user object the handlers hand out, and its class name lower-cased.
UserObjs == {"A"}
ClassName(o) == "a"

\* What a handler returns or yields, and what a response carries as result.
NullResult == [kind |-> "null", n |-> 0, cls |-> ""]
Value == [kind |-> "value", n |-> 0, cls |-> ""]
YieldValue(j) == [kind |-> "value", n |-> j, cls |-> ""]
Unserializable == [kind |-> "object()", n |-> 0, cls |-> ""]
HostedValue(o) == [kind |-> "hosted", n |-> 0, cls |-> o]
\* {"__remoteobject__": name}
RemoteObjectHint(name) ==
    [kind |-> "__remoteobject__", n |-> name[2], cls |-> name[1]]

\* ------------------------------------------------------------- helpers
\* "%s_%04x" % (classname.lower(), self.get_id()): injective in the id for
\* one class, and different classes give different names.
InstanceName(o, n) == <<ClassName(o), n>>

\* BaseHandler.get_method as dispatch_item_single sees it: a generator
\* function, a plain callable, or (through _find_method) the text of the
\* ServerError it raised for a name it does not know.
Methods == {"echo", "bad", "newobj", "boom", "count", "nosuch"}
GetMethod(m) ==
    CASE m = "count" -> "generator"
      [] m = "nosuch" -> "diagnostic"
      [] OTHER -> "callable"

\* What the plain handlers do when called: return a value or raise.
Returns(m) ==
    CASE m = "echo" -> Value
      [] m = "bad" -> Unserializable
      [] m = "newobj" -> HostedValue("A")
      [] OTHER -> NullResult
Raises(m) == m = "boom"

\* A json.dumps that accepts whatever it is given.
CanSerializeAnything(v) == TRUE

\* json.dumps(response, self) raises for a value dump_object refuses.
CanSerialize(v) == v # Unserializable

\* A reply that does not look at the id.
HasIdAlways(item) == TRUE

\* _send_response and _send_error reply only to an item with a non-null id.
HasId(item) == item.id # NullId

\* The response _send_response builds.  "by" is history: the item the
\* response answers.
ResponseFrame(i, item, v) ==
    [result |-> v, error |-> NullError, id |-> item.id, by |-> i]

\* The response _send_error builds.
ErrorFrame(i, item, err) ==
    [result |-> NullResult, error |-> err, id |-> item.id, by |-> i]

\* The error texts.  _format_exception gives "<type>: <value>"; a failed
\* json.dumps ends in the NameError of _send's own error path.
UnknownFormat == "Unknown format"
UnknownMethod == "Unknown method"
HandlerError == "RuntimeError: x"
SendNameError == "NameError: name 'item' is not defined"

\* write_line: data + b'\n', as two units.
Units(f) == << <<f, "data">>, <<f, "newline">> >>

RECURSIVE Flatten(_)
Flatten(fs) == IF fs = <<>> THEN <<>> ELSE Units(Head(fs)) \o Flatten(Tail(fs))

\* A write() that puts its item at the head of the queue.
QueuePushFront(q, item) == <<item>> \o q

\* write(): self.write_thread_queue.append(item)
QueueAppend(q, item) == Append(q, item)

\* A pump that pops the newest item: pop() for pop(0).
QueuePopLast(q) == [item |-> q[Len(q)], rest |-> SubSeq(q, 1, Len(q) - 1)]

\* write_thread_queue.pop(0): the item taken and the queue left.
QueuePop(q) == [item |-> Head(q), rest |-> Tail(q)]

\* A _dispatch_delete that leaves the entry in the table.
ObjectsKept(name) == objects

\* del self._objects[objectname]
ObjectsWithout(name) == [n \in DOMAIN objects \ {name} |-> objects[n]]

Terminal == {"done", "raised"}
NewItem(t) ==
    [id |-> t.id, obj |-> t.obj, meth |-> t.meth, form |-> t.form,
     pc |-> "start", yielded |-> <<>>, outcome |-> "none",
     shut |-> 0, present |-> "unread", shutdown_raised |-> FALSE,
     name |-> NoName]

\* The items the peer may send as its k-th, each with or without an id.  In
\* a run of plain and pipe calls: an object with neither "method" nor
\* "result"; a call of a root method; a call on a name it was told; a call
\* on a name nobody registered.  In a run about hosted objects: a call that
\* returns the hosted object; a call or a __delete__ on a name it was told;
\* a call on a name nobody registered.
Shapes ==
    IF scenario = "calls"
    THEN {[form |-> "other", obj |-> Root, meth |-> ""]}
         \cup {[form |-> "method", obj |-> Root, meth |-> m] :
                   m \in Methods \ {"newobj"}}
         \cup {[form |-> "method", obj |-> n, meth |-> "echo"] : n \in known}
         \cup {[form |-> "method", obj |-> Bogus, meth |-> "echo"]}
    ELSE {[form |-> "method", obj |-> Root, meth |-> "newobj"]}
         \cup {[form |-> "method", obj |-> n, meth |-> m] :
                   n \in known, m \in {"echo", "__delete__"}}
         \cup {[form |-> "method", obj |-> Bogus, meth |-> "echo"]}
Inbound(k) ==
    {[id |-> d, form |-> s.form, obj |-> s.obj, meth |-> s.meth] :
        d \in {NullId, IdOf(k)}, s \in Shapes}

\* An exception that leaves dispatch_item_single: a worker thread dies with
\* it; in the reader thread it leaves the loop over a batch, and
\* read_and_dispatch catches it and returns False.
PendingAfterRaise == IF threaded THEN pending ELSE 0

\* dispatch_item_threaded returns at once when threaded; otherwise the reader
\* runs dispatch_item_single itself and dispatches nothing meanwhile.
ReaderFree == threaded \/ \A i \in DOMAIN items : items[i].pc \in Terminal

\* ------------------------------------------------------------- Init
TypeOK ==
    /\ threaded \in BOOLEAN
    /\ id \in Nat
    /\ connection_status \in {"open", "closed"}
    /\ sck \in {"open", "shutdown", "closed"}
    /\ handler_shutdowns \in Nat
    /\ write_thread_semaphore \in Nat
    /\ pump \in {"acquire", "pop", "exited", "dead"}
    /\ pending \in Nat
    /\ received \in Nat

\* The connection after construction, nothing dispatched yet.
Fresh ==
    /\ getid_lock = 0
    /\ write_thread_queue = <<>>
    /\ write_thread_semaphore = 0
    /\ pump = "acquire"
    /\ wbuffer = <<>>
    /\ sock = <<>>
    /\ items = <<>>
    /\ pending = 0
    /\ received = 0
    /\ enqueued = <<>>
    /\ returned = <<>>
    /\ connection_status = "open"
    /\ sck = "open"
    /\ events = {}
    /\ handler_shutdowns = 0
    /\ close_log = {}
    /\ rbuffer = <<>>

\* No call is waiting for its response and no thread calls close().
NoRequests ==
    /\ requests = {}
    /\ handles = <<>>
    /\ closers = <<>>

\* serve() is not running.
NoServe ==
    /\ serve = [pc |-> "off", dispatched |-> 0, error |-> "none"]
    /\ seen = <<>>

\* Nobody reads, the peer sent nothing, and no proxy() call is looked at.
NoReader ==
    /\ wire = <<>>
    /\ avail = <<>>
    /\ reader = [pc |-> "off"]
    /\ lines = <<>>
    /\ sent = <<>>

NoProxy == proxied = [pc |-> "off"]

\* No object is hosted yet.
NothingHosted ==
    /\ id = 0
    /\ objects = <<>>
    /\ remoteobjects = [o \in UserObjs |-> NoName]
    /\ known = {}

\* Object A is hosted under the name its first serialization gave it, and
\* what was written then has been sent.
OneHosted ==
    /\ id = 1
    /\ objects = (InstanceName("A", 1) :> "A")
    /\ remoteobjects = [o \in UserObjs |-> InstanceName("A", 1)]
    /\ known = {InstanceName("A", 1)}

Init ==
    /\ threaded \in BOOLEAN
    /\ scenario = "calls"
    /\ Fresh
    /\ NoServe
    /\ NoReader
    /\ NoProxy
    /\ NoRequests
    /\ OneHosted
    /\ callers = <<>>
    /\ writers = <<>>

InitObjects ==
    /\ threaded \in BOOLEAN
    /\ scenario = "objects"
    /\ Fresh
    /\ NoServe
    /\ NoReader
    /\ NoProxy
    /\ NoRequests
    /\ NothingHosted \/ OneHosted
    /\ callers = <<>>
    /\ writers = <<>>

\* ------------------------------------------------------------- steps
pumpVars == <<pump, wbuffer, sock>>
tableVars == <<objects, remoteobjects>>
idVars == <<id, getid_lock>>
callVars == <<callers, returned>>
readerVars == <<pending, received>>
queueVars == <<write_thread_queue, write_thread_semaphore, enqueued>>

\* Item i's thread goes on at q, its locals now those of it.
Goto(i, it, q) ==
    /\ items' = [items EXCEPT ![i] = [it EXCEPT !.pc = q]]
    /\ UNCHANGED queueVars

\* _send(f): json.dumps(f) succeeded and write() appends the text to the
\* write queue and releases the semaphore.  (The dispatcher reads neither;
\* SpecWrite takes write() apart.)
Send(i, it, f, q) ==
    /\ write_thread_queue' = QueueAppend(write_thread_queue, [write_data |-> f])
    /\ write_thread_semaphore' = write_thread_semaphore + 1
    /\ enqueued' = Append(enqueued, f)
    /\ items' = [items EXCEPT ![i] = [it EXCEPT !.pc = q]]

\* A _send_error that sends nothing.
SendErrorDropped(i, it, err, q) == Goto(i, it, q)

\* _send_error(item, err)
SendError(i, it, err, q) ==
    IF HasId(it) THEN Send(i, it, ErrorFrame(i, it, err), q) ELSE Goto(i, it, q)

\* _send_response(item, v) for a value without hosted objects, inside the try
\* of dispatch_item_single: when json.dumps raises, _send's handler raises a
\* NameError (it reads item, which _send does not have), the except clause of
\* dispatch_item_single catches it and sends it as the error; the loop over a
\* generator is left.
SendResponse(i, it, v, q) ==
    IF ~HasId(it) THEN Goto(i, it, q)
    ELSE IF CanSerialize(v) THEN Send(i, it, ResponseFrame(i, it, v), q)
    ELSE Send(i, [it EXCEPT !.outcome = "unserializable"],
              ErrorFrame(i, it, SendNameError), "done")

\* read_and_dispatch: one frame is read and decoded; a list is a batch of n
\* elements, a dict is dispatched like a batch of one.
ReadFrame ==
    /\ pending = 0
    /\ ReaderFree
    /\ Len(items) < MaxItems
    /\ \E n \in 1..(MaxItems - Len(items)) :
          /\ pending' = n
          /\ received' = received + n
    /\ UNCHANGED <<outerVars, idVars, tableVars, known, queueVars,
                   pumpVars, items, callVars, writers>>

\* dispatch_item(i) for the next element of the frame: dispatch_item_threaded
\* starts a thread on dispatch_item_single, or calls it.
DispatchItem ==
    /\ pending > 0
    /\ ReaderFree
    /\ \E t \in Inbound(Len(items) + 1) : items' = Append(items, NewItem(t))
    /\ pending' = pending - 1
    /\ UNCHANGED <<outerVars, idVars, tableVars, known, queueVars,
                   received, pumpVars, callVars, writers>>

\* dispatch_item_single from _find_method on: the method is looked up and, if
\* it is a plain callable, called; what follows without touching shared state
\* is part of the step.
Invoke(i, it) ==
    LET v == Returns(it.meth) IN
    CASE GetMethod(it.meth) = "diagnostic" ->
           SendError(i, [it EXCEPT !.outcome = "lookup_failed"],
                     UnknownMethod, "done")
      [] GetMethod(it.meth) = "generator" -> Goto(i, it, "gen")
      [] OTHER ->
           IF Raises(it.meth)
           THEN SendError(i, [it EXCEPT !.outcome = "handler_raised"],
                          HandlerError, "done")
           ELSE IF v.kind = "hosted" /\ HasId(it)
           THEN Goto(i, [it EXCEPT !.outcome = "returned"], "dump_check")
           ELSE SendResponse(i, [it EXCEPT !.outcome = "returned"], v, "done")

\* dispatch_item_single up to _find_object's answer and, when the target is
\* the root handler (nothing shared is read), on through the call.
Start(i) ==
    LET it == items[i] IN
    /\ it.pc = "start"
    /\ IF it.form = "other"
       THEN /\ SendError(i, [it EXCEPT !.outcome = "unknown_format"],
                         UnknownFormat, "done")
            /\ UNCHANGED pending
       ELSE IF it.obj = Root
       THEN Invoke(i, it) /\ UNCHANGED pending
       ELSE IF it.obj \notin DOMAIN objects
       THEN /\ Goto(i, [it EXCEPT !.outcome = "invalid_object"], "raised")
            /\ pending' = PendingAfterRaise
       ELSE IF it.meth = "__delete__"
       THEN Goto(i, it, "del_shutdown") /\ UNCHANGED pending
       ELSE Goto(i, it, "call") /\ UNCHANGED pending
    /\ UNCHANGED <<outerVars, idVars, tableVars, known, received,
                   pumpVars, callVars, writers>>

\* The call of a method of a hosted object that _find_object returned.
Call(i) ==
    LET it == items[i] IN
    /\ it.pc = "call"
    /\ Invoke(i, it)
    /\ UNCHANGED <<outerVars, idVars, tableVars, known, readerVars,
                   pumpVars, callVars, writers>>

\* One turn of "for response in fn(*args, **kw)": the generator yields its
\* next value, which is sent; or it returns; or it raises.
GenNext(i) ==
    LET it == items[i] IN
    /\ it.pc = "gen"
    /\ \/ /\ Len(it.yielded) < MaxYield
          /\ \E v \in {YieldValue(Len(it.yielded) + 1), Unserializable} :
                SendResponse(i, [it EXCEPT !.yielded = Append(@, v)], v, "gen")
       \/ Goto(i, [it EXCEPT !.outcome = "exhausted"], "done")
       \/ SendError(i, [it EXCEPT !.outcome = "generator_raised"],
                    HandlerError, "done")
    /\ UNCHANGED <<outerVars, idVars, tableVars, known, readerVars,
                   pumpVars, callVars, writers>>

\* _dump_remoteobject, reached from json.dumps: is the object registered on
\* this connection?
DumpCheck(i) ==
    LET it == items[i]
        o == Returns(it.meth).cls
    IN
    /\ it.pc = "dump_check"
    /\ IF remoteobjects[o] # NoName
       THEN Goto(i, [it EXCEPT !.name = remoteobjects[o]], "dump_send")
       ELSE Goto(i, it, "dump_getid")
    /\ UNCHANGED <<outerVars, idVars, tableVars, known, readerVars,
                   pumpVars, callVars, writers>>

\* instancename = "%s_%04x" % (classname.lower(), self.get_id()); get_id's
\* critical section as one step.
DumpGetId(i) ==
    LET it == items[i]
        o == Returns(it.meth).cls
    IN
    /\ it.pc = "dump_getid"
    /\ getid_lock = 0
    /\ id' = id + 1
    /\ Goto(i, [it EXCEPT !.name = InstanceName(o, id + 1)], "dump_store_objects")
    /\ UNCHANGED <<outerVars, getid_lock, tableVars, known,
                   readerVars, pumpVars, callVars, writers>>

\* self._objects[instancename] = obj
DumpStoreObjects(i) ==
    LET it == items[i]
        o == Returns(it.meth).cls
    IN
    /\ it.pc = "dump_store_objects"
    /\ objects' = (it.name :> o) @@ objects
    /\ Goto(i, it, "dump_store_remote")
    /\ UNCHANGED <<outerVars, idVars, remoteobjects, known,
                   readerVars, pumpVars, callVars, writers>>

\* obj.__remoteobjects__[self] = instancename
DumpStoreRemote(i) ==
    LET it == items[i]
        o == Returns(it.meth).cls
    IN
    /\ it.pc = "dump_store_remote"
    /\ remoteobjects' = [remoteobjects EXCEPT ![o] = it.name]
    /\ Goto(i, it, "dump_send")
    /\ UNCHANGED <<outerVars, idVars, objects, known, readerVars,
                   pumpVars, callVars, writers>>

\* json.dumps returns the text with the hint and write() takes it.
DumpSend(i) ==
    LET it == items[i] IN
    /\ it.pc = "dump_send"
    /\ Send(i, it, ResponseFrame(i, it, RemoteObjectHint(it.name)), "done")
    /\ known' = known \cup {it.name}
    /\ UNCHANGED <<outerVars, idVars, tableVars, readerVars,
                   pumpVars, callVars, writers>>

\* _dispatch_delete: self._objects[objectname]._shutdown().  A name that is
\* gone raises KeyError, and the except clause raises it again when it logs
\* type(self._objects[objectname]).
DeleteShutdown(i) ==
    LET it == items[i] IN
    /\ it.pc = "del_shutdown"
    /\ IF it.obj \in DOMAIN objects
       THEN /\ \E q \in {"del_log", "del_remove"} :
                  Goto(i, [it EXCEPT !.shut = @ + 1, !.present = "yes",
                                     !.shutdown_raised = (q = "del_log")], q)
            /\ UNCHANGED pending
       ELSE /\ Goto(i, [it EXCEPT !.present = "no"], "raised")
            /\ pending' = PendingAfterRaise
    /\ UNCHANGED <<outerVars, idVars, tableVars, known, received,
                   pumpVars, callVars, writers>>

\* _shutdown raised: _log.error(..., type(self._objects[objectname]))
DeleteLog(i) ==
    LET it == items[i] IN
    /\ it.pc = "del_log"
    /\ IF it.obj \in DOMAIN objects
       THEN Goto(i, it, "del_remove") /\ UNCHANGED pending
       ELSE Goto(i, it, "raised") /\ pending' = PendingAfterRaise
    /\ UNCHANGED <<outerVars, idVars, tableVars, known, received,
                   pumpVars, callVars, writers>>

\* del self._objects[objectname]; _find_object then returns None and
\* dispatch_item_single returns.
DeleteRemove(i) ==
    LET it == items[i] IN
    /\ it.pc = "del_remove"
    /\ IF it.obj \in DOMAIN objects
       THEN /\ objects' = ObjectsWithout(it.obj)
            /\ Goto(i, [it EXCEPT !.outcome = "deleted"], "done")
            /\ UNCHANGED pending
       ELSE /\ Goto(i, it, "raised")
            /\ pending' = PendingAfterRaise
            /\ UNCHANGED objects
    /\ UNCHANGED <<outerVars, idVars, remoteobjects, known, received,
                   pumpVars, callVars, writers>>

Next ==
    \/ ReadFrame
    \/ DispatchItem
    \/ \E i \in DOMAIN items : Start(i)
    \/ \E i \in DOMAIN items : Call(i)
    \/ \E i \in DOMAIN items : GenNext(i)

Spec == Init /\ [][Next]_vars

NextObjects ==
    \/ ReadFrame
    \/ DispatchItem
    \/ \E i \in DOMAIN items : Start(i)
    \/ \E i \in DOMAIN items : Call(i)
    \/ \E i \in DOMAIN items : DumpCheck(i)
    \/ \E i \in DOMAIN items : DumpGetId(i)
    \/ \E i \in DOMAIN items : DumpStoreObjects(i)
    \/ \E i \in DOMAIN items : DumpStoreRemote(i)
    \/ \E i \in DOMAIN items : DumpSend(i)
    \/ \E i \in DOMAIN items : DeleteShutdown(i)
    \/ \E i \in DOMAIN items : DeleteLog(i)
    \/ \E i \in DOMAIN items : DeleteRemove(i)

SpecObjects == InitObjects /\ [][NextObjects]_vars

\* ------------------------------------------------------------- writer pump
\* The k-th text thread t hands to write().
WriterFrame(t, k) == ResponseFrame(t, [id |-> IdOf(t)], YieldValue(k))

\* write(): self.write_thread_queue.append(item)
WriteAppend(t) ==
    LET w == writers[t] IN
    /\ w.pc = "append"
    /\ Len(enqueued) < (IF scenario = "close" THEN MaxLate ELSE MaxWrites)
    /\ write_thread_queue' =
           QueueAppend(write_thread_queue, [write_data |-> WriterFrame(t, w.n + 1)])
    /\ enqueued' = Append(enqueued, WriterFrame(t, w.n + 1))
    /\ writers' = [writers EXCEPT ![t] = [pc |-> "release", n |-> w.n + 1]]
    /\ UNCHANGED <<outerVars, idVars, tableVars, known, items,
                   readerVars, write_thread_semaphore, pumpVars, callVars>>

\* A write() that releases the semaphore twice for one item.
WriteReleaseTwice(t) ==
    LET w == writers[t] IN
    /\ w.pc = "release"
    /\ write_thread_semaphore' = write_thread_semaphore + 2
    /\ writers' = [writers EXCEPT ![t].pc = "append"]
    /\ UNCHANGED <<outerVars, idVars, tableVars, known, items,
                   readerVars, write_thread_queue, enqueued, pumpVars,
                   callVars>>

\* write(): self.write_thread_semaphore.release()
WriteRelease(t) ==
    LET w == writers[t] IN
    /\ w.pc = "release"
    /\ write_thread_semaphore' = write_thread_semaphore + 1
    /\ writers' = [writers EXCEPT ![t].pc = "append"]
    /\ UNCHANGED <<outerVars, idVars, tableVars, known, items,
                   readerVars, write_thread_queue, enqueued, pumpVars,
                   callVars>>

\* write_thread: self.write_thread_semaphore.acquire()
PumpAcquire ==
    /\ pump = "acquire"
    /\ write_thread_semaphore > 0
    /\ write_thread_semaphore' = write_thread_semaphore - 1
    /\ pump' = "pop"
    /\ UNCHANGED <<outerVars, idVars, tableVars, known, items,
                   readerVars, write_thread_queue, enqueued, wbuffer, sock,
                   callVars, writers>>

\* write_thread: pop(0); an item with write_data goes to write_now ->
\* write_line: the text and its newline join _wbuffer and send() is called
\* until the buffer is empty, a send takes nothing or a send fails; what is
\* left stays in _wbuffer.  On a socket that was shut down send() raises and
\* write_line returns; on a closed socket settimeout() raises in write_now
\* and the exception ends the thread.  An abort item sets its event and
\* ends the loop.
PumpPop ==
    /\ pump = "pop"
    /\ IF write_thread_queue = <<>>
       THEN /\ pump' = "acquire"
            /\ UNCHANGED <<write_thread_queue, wbuffer, sock, events>>
       ELSE LET p == QueuePop(write_thread_queue)
                data == "write_data" \in DOMAIN p.item
                buf == IF data THEN wbuffer \o Units(p.item.write_data)
                       ELSE wbuffer
            IN /\ write_thread_queue' = p.rest
               /\ IF data /\ sck = "closed"
                  THEN /\ pump' = "dead"
                       /\ UNCHANGED <<wbuffer, sock, events>>
                  ELSE /\ \E k \in 0..(IF data /\ sck = "open"
                                       THEN Len(buf) ELSE 0) :
                            /\ sock' = sock \o SubSeq(buf, 1, k)
                            /\ wbuffer' = SubSeq(buf, k + 1, Len(buf))
                       /\ events' = IF "event" \in DOMAIN p.item
                                    THEN events \cup {p.item.event}
                                    ELSE events
                       /\ pump' = IF "abort" \in DOMAIN p.item
                                  THEN "exited" ELSE "acquire"
    /\ UNCHANGED <<configVars, apartVars, idVars, tableVars, known, items,
                   readerVars, enqueued, write_thread_semaphore, callVars,
                   writers,
                   connection_status, sck, handler_shutdowns, requests,
                   handles, closers, close_log>>

InitWrite ==
    /\ threaded = FALSE
    /\ scenario = "write"
    /\ Fresh
    /\ NoServe
    /\ NoReader
    /\ NoProxy
    /\ NoRequests
    /\ NothingHosted
    /\ callers = <<>>
    /\ writers = [t \in 1..MaxThreads |-> [pc |-> "append", n |-> 0]]

NextWrite ==
    \/ \E t \in DOMAIN writers : WriteAppend(t)
    \/ \E t \in DOMAIN writers : WriteRelease(t)
    \/ PumpAcquire
    \/ PumpPop

SpecWrite == InitWrite /\ [][NextWrite]_vars

\* ------------------------------------------------------------- get_id
\* A get_id that takes no lock.
LockIgnored == TRUE

\* self.getid_lock.acquire() succeeds on a free lock.
LockFree == getid_lock = 0

\* The greatest id a completed call returned, 0 when none has.
Floor ==
    IF returned = <<>> THEN 0
    ELSE CHOOSE m \in {returned[k].value : k \in DOMAIN returned} :
             \A k \in DOMAIN returned : returned[k].value <= m

\* get_id() is called and takes the lock.
GetIdAcquire(t) ==
    LET c == callers[t] IN
    /\ c.pc = "acquire"
    /\ c.calls < MaxCalls
    /\ LockFree
    /\ getid_lock' = t
    /\ callers' = [callers EXCEPT ![t] =
                       [c EXCEPT !.pc = "load", !.calls = @ + 1, !.floor = Floor]]
    /\ UNCHANGED <<outerVars, id, tableVars, known, items,
                   readerVars, queueVars, pumpVars, returned, writers>>

\* self._id += 1 reads self._id ...
GetIdLoad(t) ==
    LET c == callers[t] IN
    /\ c.pc = "load"
    /\ callers' = [callers EXCEPT ![t] = [c EXCEPT !.pc = "store", !.tmp = id]]
    /\ UNCHANGED <<outerVars, idVars, tableVars, known, items,
                   readerVars, queueVars, pumpVars, returned, writers>>

\* ... and stores the sum.
GetIdStore(t) ==
    LET c == callers[t] IN
    /\ c.pc = "store"
    /\ id' = c.tmp + 1
    /\ callers' = [callers EXCEPT ![t].pc = "read"]
    /\ UNCHANGED <<outerVars, getid_lock, tableVars, known, items,
                   readerVars, queueVars, pumpVars, returned, writers>>

\* ret = self._id
GetIdRead(t) ==
    LET c == callers[t] IN
    /\ c.pc = "read"
    /\ callers' = [callers EXCEPT ![t] = [c EXCEPT !.pc = "release", !.ret = id]]
    /\ UNCHANGED <<outerVars, idVars, tableVars, known, items,
                   readerVars, queueVars, pumpVars, returned, writers>>

\* self.getid_lock.release(); return ret
GetIdRelease(t) ==
    LET c == callers[t] IN
    /\ c.pc = "release"
    /\ getid_lock' = 0
    /\ returned' = Append(returned, [value |-> c.ret, floor |-> c.floor, by |-> t])
    /\ callers' = [callers EXCEPT ![t].pc = "acquire"]
    /\ UNCHANGED <<outerVars, id, tableVars, known, items,
                   readerVars, queueVars, pumpVars, writers>>

InitGetId ==
    /\ threaded = FALSE
    /\ scenario = "get_id"
    /\ Fresh
    /\ NoServe
    /\ NoReader
    /\ NoProxy
    /\ NoRequests
    /\ NothingHosted
    /\ callers = [t \in 1..MaxThreads |->
                     [pc |-> "acquire", calls |-> 0, tmp |-> 0, ret |-> 0,
                      floor |-> 0]]
    /\ writers = <<>>

NextGetId ==
    \/ \E t \in DOMAIN callers : GetIdAcquire(t)
    \/ \E t \in DOMAIN callers : GetIdLoad(t)
    \/ \E t \in DOMAIN callers : GetIdStore(t)
    \/ \E t \in DOMAIN callers : GetIdRead(t)
    \/ \E t \in DOMAIN callers : GetIdRelease(t)

SpecGetId == InitGetId /\ [][NextGetId]_vars

\* ------------------------------------------------------------- close
\* What the dispatcher and get_id own; close() leaves it alone.
dispatchVars == <<idVars, tableVars, known, items, readerVars, callVars>>
awayVars == <<configVars, dispatchVars, apartVars>>

\* A close() that never finds the connection closed.
IsClosedNever == FALSE

\* close(): if self.connection_status == "closed": return
IsClosed == connection_status = "closed"

\* The abort item of the k-th close() of thread c; its event is named <<c, k>>.
AbortItem(c, k) == [abort |-> TRUE, event |-> <<c, k>>]

\* The call of close() by thread c is over: it is logged with the status it
\* found, what it did and the status it leaves.
CloseReturn(c, entry, did) ==
    /\ close_log' = close_log \cup
          {[by |-> c, call |-> closers[c].calls + 1, entry |-> entry,
            did |-> did, acked |-> closers[c].acked,
            exit |-> connection_status']}
    /\ closers' = [closers EXCEPT ![c] =
                      [pc |-> "idle", calls |-> closers[c].calls + 1,
                       entry |-> entry, did |-> {}, acked |-> FALSE]]

\* Thread c is about to call close(): the thread in serve() when an
\* exception takes it to the finally clause, any other thread at any time.
AtClose(c) ==
    IF scenario = "serve"
    THEN serve.pc = "raised" /\ closers[c].calls = 0
    ELSE Cardinality(close_log) + Cardinality({d \in DOMAIN closers :
             closers[d].pc # "idle"}) < MaxCloses

\* close(): the test of connection_status
CloseEnter(c) ==
    /\ closers[c].pc = "idle"
    /\ AtClose(c)
    /\ IF IsClosed
       THEN /\ UNCHANGED connection_status
            /\ CloseReturn(c, connection_status, {})
       ELSE /\ closers' = [closers EXCEPT ![c].pc = "append",
                                          ![c].entry = connection_status,
                                          ![c].did = {}]
            /\ UNCHANGED <<connection_status, close_log>>
    /\ UNCHANGED <<awayVars, queueVars, pumpVars, writers,
                   sck, events, handler_shutdowns, requests, handles>>

\* close(): self.write_thread_queue.append(item)
CloseAppend(c) ==
    /\ closers[c].pc = "append"
    /\ write_thread_queue' =
           QueueAppend(write_thread_queue, AbortItem(c, closers[c].calls + 1))
    /\ closers' = [closers EXCEPT ![c].pc = "release",
                                  ![c].did = @ \cup {"abort"}]
    /\ UNCHANGED <<awayVars, write_thread_semaphore, enqueued,
                   pumpVars, writers, connection_status, sck, events,
                   handler_shutdowns, requests, handles, close_log>>

\* close(): self.write_thread_semaphore.release()
CloseRelease(c) ==
    /\ closers[c].pc = "release"
    /\ write_thread_semaphore' = write_thread_semaphore + 1
    /\ closers' = [closers EXCEPT ![c].pc = "wait"]
    /\ UNCHANGED <<awayVars, write_thread_queue, enqueued,
                   pumpVars, writers, connection_status, sck, events,
                   handler_shutdowns, requests, handles, close_log>>

\* close(): item['event'].wait(1) returns when the event is set or when the
\* second is over, whichever comes first.
CloseWait(c) ==
    /\ closers[c].pc = "wait"
    /\ closers' = [closers EXCEPT
          ![c].pc = "handler",
          ![c].acked = <<c, closers[c].calls + 1>> \in events]
    /\ UNCHANGED <<awayVars, queueVars, pumpVars, writers,
                   connection_status, sck, events, handler_shutdowns,
                   requests, handles, close_log>>

\* close(): self.handler._shutdown(), whatever it raises is logged
CloseHandler(c) ==
    /\ closers[c].pc = "handler"
    /\ handler_shutdowns' = handler_shutdowns + 1
    /\ closers' = [closers EXCEPT ![c].pc = "sck_shutdown",
                                  ![c].did = @ \cup {"_shutdown"}]
    /\ UNCHANGED <<awayVars, queueVars, pumpVars, writers,
                   connection_status, sck, events, requests, handles,
                   close_log>>

\* close(): self._sck.shutdown(socket.SHUT_RDWR); when it raises
\* socket.error the socket stays as it was and the error is ignored.
CloseSckShutdown(c) ==
    /\ closers[c].pc = "sck_shutdown"
    /\ sck' \in {sck, IF sck = "open" THEN "shutdown" ELSE sck}
    /\ closers' = [closers EXCEPT ![c].pc = "sck_close",
                                  ![c].did = @ \cup {"socket"}]
    /\ UNCHANGED <<awayVars, queueVars, pumpVars, writers,
                   connection_status, events, handler_shutdowns, requests,
                   handles, close_log>>

\* A close() that leaves the socket as it is.
SckLeftOpen(s) == s

\* self._sck.close()
SckClose(s) == "closed"

\* close(): self._sck.close()
CloseSckClose(c) ==
    /\ closers[c].pc = "sck_close"
    /\ sck' = SckClose(sck)
    /\ closers' = [closers EXCEPT ![c].pc = "status"]
    /\ UNCHANGED <<awayVars, queueVars, pumpVars, writers,
                   connection_status, events, handler_shutdowns, requests,
                   handles, close_log>>

\* close(): self.connection_status = "closed"
CloseStatus(c) ==
    /\ closers[c].pc = "status"
    /\ connection_status' = "closed"
    /\ CloseReturn(c, closers[c].entry, closers[c].did \cup {"status"})
    /\ UNCHANGED <<awayVars, queueVars, pumpVars, writers,
                   sck, events, handler_shutdowns, requests, handles>>

\* Request.setresponse(item): the handle takes the response, its waiters
\* wake and it leaves the pending map.
SetResponse(r) ==
    /\ handles' = [handles EXCEPT ![r] = "response"]
    /\ requests' = requests \ {r}

\* A reader takes the peer's response to request r off the open socket and
\* dispatch_item_single hands it to the request.  On a closed socket
\* settimeout() raises in read() before any recv.
DispatchResponse(r) ==
    /\ sck = "open"
    /\ r \in requests
    /\ SetResponse(r)
    /\ UNCHANGED <<awayVars, queueVars, pumpVars, writers,
                   connection_status, sck, events, handler_shutdowns,
                   closers, close_log>>

\* Object A is hosted, a synchronous call is waiting for its response and
\* what was written so far has been sent.
InitClose ==
    /\ threaded = FALSE
    /\ scenario = "close"
    /\ Fresh
    /\ NoServe
    /\ NoReader
    /\ NoProxy
    /\ id = 2
    /\ objects = (InstanceName("A", 1) :> "A")
    /\ remoteobjects = [o \in UserObjs |-> InstanceName("A", 1)]
    /\ known = {InstanceName("A", 1)}
    /\ requests = {2}
    /\ handles = [r \in {2} |-> "waiting"]
    /\ closers = [c \in {1, 2} |->
                     [pc |-> "idle", calls |-> 0, entry |-> "open",
                      did |-> {}, acked |-> FALSE]]
    /\ callers = <<>>
    /\ writers = [t \in {1} |-> [pc |-> "append", n |-> 0]]

NextClose ==
    \/ \E c \in DOMAIN closers : CloseEnter(c)
    \/ \E c \in DOMAIN closers : CloseAppend(c)
    \/ \E c \in DOMAIN closers : CloseRelease(c)
    \/ \E c \in DOMAIN closers : CloseWait(c)
    \/ \E c \in DOMAIN closers : CloseHandler(c)
    \/ \E c \in DOMAIN closers : CloseSckShutdown(c)
    \/ \E c \in DOMAIN closers : CloseSckClose(c)
    \/ \E c \in DOMAIN closers : CloseStatus(c)
    \/ \E r \in requests : DispatchResponse(r)
    \/ \E t \in DOMAIN writers : WriteAppend(t)
    \/ \E t \in DOMAIN writers : WriteRelease(t)
    \/ PumpAcquire
    \/ PumpPop

SpecClose == InitClose /\ [][NextClose]_vars

\* ------------------------------------------------------------- serve
\* What one read of serve() can meet: a frame that arrived whole, or an
\* event on the socket.
\*   request         an object with a method key (here a notification)
\*   unknown_format  an object with neither method nor result
\*   not_json        a line that is not JSON
\*   scalar          a JSON value that is neither a list nor an object
\*   bad_hint        an __objectreference__ naming no hosted object
\*   bad_utf8        a line that is not UTF-8
\*   empty           a line of no bytes
\*   eof             recv() returns b''
\*   fatal_error     recv() raises IOError, errno in _SOCKET_COMM_ERRORS
\*   other_error     recv() raises IOError with another errno
Malformed == {"unknown_format", "not_json", "scalar", "bad_hint", "bad_utf8"}
StreamEnd == {"eof", "fatal_error"}
Meets == {"request", "empty", "other_error"} \cup Malformed \cup StreamEnd

\* read() -> read_line() -> _readn(): EofError on end of stream, b'' on
\* another socket error, else the line, which read_line decodes as UTF-8.
ReadLine(e) ==
    CASE e \in StreamEnd -> "EofError"
      [] e = "bad_utf8" -> "UnicodeDecodeError"
      [] e \in {"empty", "other_error"} -> "nothing"
      [] OTHER -> "text"

\* read_and_dispatch(): what it returns, or the exception that leaves it.
\* Only read() is outside its try block.
ReadAndDispatch(e) ==
    CASE ReadLine(e) \in {"EofError", "UnicodeDecodeError"} -> ReadLine(e)
      [] ReadLine(e) = "nothing" -> "False"
      [] e \in {"not_json", "bad_hint", "scalar"} -> "False"
      [] OTHER -> "True"

\* serve(): one turn of the loop.  An exception leaves the loop for the
\* finally clause, which calls close().
ServeRead ==
    /\ serve.pc = "read"
    /\ Len(seen) < MaxFrames
    /\ \E e \in Meets :
          LET r == ReadAndDispatch(e) IN
          /\ seen' = Append(seen, e)
          /\ serve' = IF r \in {"True", "False"}
                      THEN [serve EXCEPT !.dispatched =
                               IF r = "True" THEN @ + 1 ELSE @]
                      ELSE [serve EXCEPT !.pc = "raised", !.error = r]
    /\ UNCHANGED <<configVars, dispatchVars, lifeVars, queueVars, pumpVars,
                   writers, rbuffer, wire, avail, reader, lines, sent,
                   proxied>>

\* serve() has returned: its close() is over.
ServeOver == serve.pc = "raised" /\ closers[1].calls = 1

InitServe ==
    /\ threaded \in BOOLEAN
    /\ scenario = "serve"
    /\ Fresh
    /\ NothingHosted
    /\ requests = {}
    /\ handles = <<>>
    /\ closers = [c \in {1} |->
                     [pc |-> "idle", calls |-> 0, entry |-> "open",
                      did |-> {}, acked |-> FALSE]]
    /\ serve = [pc |-> "read", dispatched |-> 0, error |-> "none"]
    /\ seen = <<>>
    /\ NoReader
    /\ NoProxy
    /\ callers = <<>>
    /\ writers = <<>>

NextServe ==
    \/ ServeRead
    \/ CloseEnter(1)
    \/ CloseAppend(1)
    \/ CloseRelease(1)
    \/ CloseWait(1)
    \/ CloseHandler(1)
    \/ CloseSckShutdown(1)
    \/ CloseSckClose(1)
    \/ CloseStatus(1)
    \/ PumpAcquire
    \/ PumpPop

SpecServe == InitServe /\ [][NextServe]_vars

\* ------------------------------------------------------------- reading
\* Bytes are named by their hex digits.  A message is a sequence of
\* characters; "a" is one byte in UTF-8 and "e_acute" two.
NL == "0a"
Chars == {"a", "e_acute"}
Messages == UNION {[1..n -> Chars] : n \in 0..MaxMsgLen}

EncodeChar(c) == IF c = "a" THEN <<"61">> ELSE <<"c3", "a9">>

\* data.encode('utf-8')
RECURSIVE Encode(_)
Encode(msg) ==
    IF msg = <<>> THEN <<>> ELSE EncodeChar(Head(msg)) \o Encode(Tail(msg))

\* data.decode('utf-8'); bytes that are not UTF-8 raise UnicodeDecodeError.
RECURSIVE Decode(_)
Decode(b) ==
    IF b = <<>> THEN <<>>
    ELSE IF b[1] = "61" THEN <<"a">> \o Decode(Tail(b))
    ELSE IF b[1] = "c3" /\ Len(b) >= 2 /\ b[2] = "a9"
         THEN <<"e_acute">> \o Decode(SubSeq(b, 3, Len(b)))
    ELSE <<"UnicodeDecodeError">>

\* write_line: what goes to the socket for one message.
Frame(msg) == Encode(msg) \o <<NL>>

\* streambuffer.find(b'\n'), counted from 1; 0 when there is none.
RECURSIVE Find(_)
Find(b) ==
    IF b = <<>> THEN 0
    ELSE IF Head(b) = NL THEN 1
    ELSE IF Find(Tail(b)) = 0 THEN 0 ELSE 1 + Find(Tail(b))

HasLine(b) == Find(b) # 0

\* streambuffer[:pos]
Before(b) == SubSeq(b, 1, Find(b) - 1)

\* A _readn that forgets what follows the newline.
AfterDropped(b) == <<>>

\* streambuffer[pos + 1:]
After(b) == SubSeq(b, Find(b) + 1, Len(b))

\* self._sck.recv(2048) takes at most this many bytes.
RecvSize == 2048

\* json.loads and the dispatch of one line succeed: here a text that begins
\* with "a" stands for a request and any other text is not JSON.
Dispatchable(text) == text # <<>> /\ text[1] = "a"

\* The peer writes one more message with write_line.
PeerWrite ==
    /\ Len(sent) < MaxMsgs
    /\ \E msg \in Messages :
          /\ sent' = Append(sent, msg)
          /\ wire' = wire \o Frame(msg)
    /\ UNCHANGED <<configVars, dispatchVars, lifeVars, queueVars, pumpVars,
                   writers, serve, seen, rbuffer, avail, reader, lines,
                   proxied>>

\* Some of the bytes on the way arrive, at least one.
Arrive ==
    /\ wire # <<>>
    /\ \E k \in 1..Len(wire) :
          /\ avail' = avail \o SubSeq(wire, 1, k)
          /\ wire' = SubSeq(wire, k + 1, Len(wire))
    /\ UNCHANGED <<configVars, dispatchVars, lifeVars, queueVars, pumpVars,
                   writers, serve, seen, rbuffer, reader, lines, sent,
                   proxied>>

\* The record logged when a call of the reading thread returns.
Logged(c, text, count) ==
    [call |-> c, text |-> text, count |-> count,
     left |-> HasLine(rbuffer'), waited |-> reader.waited]

ReaderIdle(t, calls) ==
    [pc |-> "idle", call |-> "none", sb |-> <<>>, timeout |-> t,
     count |-> 0, waited |-> FALSE, calls |-> calls]

\* _readn() with streambuffer sb and the socket's timeout t, in call c
\* which has dispatched count lines: with a newline in sb the line is taken
\* and the rest goes to _buffer; read_line returns the decoded line, and
\* read_and_dispatch, called by dispatch_until_empty, dispatches it and the
\* loop goes on while it returned True and _buffer holds a newline; a line
\* that cannot be decoded or dispatched ends the call with the count so far.
\* Without a newline _readn goes to recv().
Readn(c, sb, t, count) ==
    IF ~HasLine(sb)
    THEN /\ reader' = [reader EXCEPT !.pc = "recv", !.call = c, !.sb = sb,
                                     !.timeout = t, !.count = count]
         /\ UNCHANGED <<rbuffer, lines>>
    ELSE /\ rbuffer' = After(sb)
         /\ IF c = "read_line"
            THEN /\ lines' = Append(lines, Logged(c, Decode(Before(sb)), 0))
                 /\ reader' = ReaderIdle(t, reader.calls + 1)
            ELSE IF ~Dispatchable(Decode(Before(sb)))
            THEN /\ lines' = Append(lines, Logged(c, <<>>, count))
                 /\ reader' = ReaderIdle(t, reader.calls + 1)
            ELSE IF HasLine(After(sb))
            THEN /\ reader' = [reader EXCEPT !.pc = "again", !.call = c,
                                             !.sb = <<>>, !.timeout = t,
                                             !.count = count + 1]
                 /\ UNCHANGED lines
            ELSE /\ lines' = Append(lines, Logged(c, <<>>, count + 1))
                 /\ reader' = ReaderIdle(t, reader.calls + 1)

readFixed == <<configVars, dispatchVars, lifeVars, queueVars, pumpVars,
               writers, serve, seen, wire, sent, proxied>>

\* read_line() is called; the socket keeps the timeout it has.
ReadLineCall ==
    /\ reader.pc = "idle"
    /\ reader.calls < MaxReads
    /\ Readn("read_line", rbuffer, reader.timeout, 0)
    /\ UNCHANGED <<readFixed, avail>>

\* dispatch_until_empty() is called: select() with timeout 0 on the socket;
\* not readable, it returns 0; readable, read_and_dispatch(timeout=0).
DrainCall ==
    /\ scenario = "drain"
    /\ reader.pc = "idle"
    /\ reader.calls < MaxReads
    /\ IF avail = <<>>
       THEN /\ UNCHANGED rbuffer
            /\ lines' = Append(lines, Logged("drain", <<>>, 0))
            /\ reader' = ReaderIdle(reader.timeout, reader.calls + 1)
       ELSE Readn("drain", rbuffer, "0", 0)
    /\ UNCHANGED <<readFixed, avail>>

\* The loop of dispatch_until_empty goes round: read_and_dispatch(timeout=0).
DrainAgain ==
    /\ reader.pc = "again"
    /\ Readn("drain", rbuffer, "0", reader.count)
    /\ UNCHANGED <<readFixed, avail>>

\* recv() returns bytes that have arrived.
RecvData ==
    /\ reader.pc \in {"recv", "waiting"}
    /\ avail # <<>>
    /\ LET k == IF Len(avail) < RecvSize THEN Len(avail) ELSE RecvSize
       IN /\ avail' = SubSeq(avail, k + 1, Len(avail))
          /\ Readn(reader.call, reader.sb \o SubSeq(avail, 1, k),
                   reader.timeout, reader.count)
    /\ UNCHANGED readFixed

\* recv() raises EAGAIN on the socket with timeout 0: settimeout(5) and
\* recv() again.
RecvAgain ==
    /\ reader.pc = "recv"
    /\ avail = <<>>
    /\ reader.timeout = "0"
    /\ reader' = [reader EXCEPT !.timeout = "5"]
    /\ UNCHANGED <<readFixed, avail, rbuffer, lines>>

\* recv() on a socket with a timeout of 5 seconds and nothing to read: the
\* thread waits.
RecvWait ==
    /\ reader.pc = "recv"
    /\ avail = <<>>
    /\ reader.timeout = "5"
    /\ reader' = [reader EXCEPT !.pc = "waiting", !.waited = TRUE]
    /\ UNCHANGED <<readFixed, avail, rbuffer, lines>>

\* The 5 seconds pass: socket.timeout, _readn() returns b'' and what it had
\* received, held in streambuffer only, goes with it; read_line returns ''
\* and read_and_dispatch False.
RecvTimeout ==
    /\ reader.pc = "waiting"
    /\ avail = <<>>
    /\ UNCHANGED <<readFixed, avail, rbuffer>>
    /\ lines' = Append(lines, Logged(reader.call, <<>>, reader.count))
    /\ reader' = ReaderIdle(reader.timeout, reader.calls + 1)

\* read(timeout=5): settimeout("read", 5) leaves the 5 seconds, below the
\* maximum of 60, and read_line() is called.
ReadCall ==
    /\ reader.pc = "idle"
    /\ reader.calls < MaxReads
    /\ Readn("read_line", rbuffer, "5", 0)
    /\ UNCHANGED <<readFixed, avail>>

InitReadLine ==
    /\ threaded = FALSE
    /\ scenario = "read_line"
    /\ Fresh
    /\ NoServe
    /\ NoProxy
    /\ NoRequests
    /\ NothingHosted
    /\ callers = <<>>
    /\ writers = <<>>
    /\ wire = <<>> /\ avail = <<>> /\ lines = <<>> /\ sent = <<>>
    /\ reader = ReaderIdle("None", 0)

NextReadLine == PeerWrite \/ Arrive \/ ReadLineCall \/ RecvData

SpecReadLine == InitReadLine /\ [][NextReadLine]_vars

InitDrain ==
    /\ threaded = FALSE
    /\ scenario = "drain"
    /\ Fresh
    /\ NoServe
    /\ NoProxy
    /\ NoRequests
    /\ NothingHosted
    /\ callers = <<>>
    /\ writers = <<>>
    /\ wire = <<>> /\ avail = <<>> /\ lines = <<>> /\ sent = <<>>
    /\ reader = ReaderIdle("None", 0)

NextDrain ==
    \/ PeerWrite \/ Arrive \/ ReadLineCall \/ DrainCall \/ DrainAgain
    \/ RecvData \/ RecvAgain \/ RecvWait \/ RecvTimeout

SpecDrain == InitDrain /\ [][NextDrain]_vars

InitRead ==
    /\ threaded = FALSE
    /\ scenario = "read"
    /\ Fresh
    /\ NoServe
    /\ NoProxy
    /\ NoRequests
    /\ NothingHosted
    /\ callers = <<>>
    /\ writers = <<>>
    /\ wire = <<>> /\ avail = <<>> /\ lines = <<>> /\ sent = <<>>
    /\ reader = ReaderIdle("None", 0)

NextRead ==
    \/ PeerWrite \/ Arrive \/ ReadLineCall \/ ReadCall
    \/ RecvData \/ RecvWait \/ RecvTimeout

SpecRead == InitRead /\ [][NextRead]_vars

\* ------------------------------------------------------------- proxy
\* The values of arguments, and the names of keyword arguments.
ArgValues == {1, 2}
KwKeys == {"x", "y"}
ArgLists == UNION {[1..n -> ArgValues] : n \in 0..MaxArgs}
KwMaps == UNION {[K -> ArgValues] : K \in SUBSET KwKeys}
SyncTypes == {0, 1, 2, 3}

\* A value of the frame that is a tuple, a list or a dict.
EmptyMap == [k \in {} |-> 0]
TupleOf(q) == [t |-> "tuple", seq |-> q, map |-> EmptyMap]
ListOf(q) == [t |-> "list", seq |-> q, map |-> EmptyMap]
DictOf(f) == [t |-> "dict", seq |-> <<>>, map |-> f]

\* The keys proxy() puts in data.
DataKeys(sync_type, args, kwargs) ==
    {"method"}
        \cup (IF sync_type \in {0, 1, 3} THEN {"id"} ELSE {})
        \cup (IF Len(args) > 0 THEN {"params"} ELSE {})
        \cup (IF DOMAIN kwargs # {}
              THEN IF Len(args) = 0 THEN {"params"} ELSE {"kwparams"}
              ELSE {})

\* data as proxy() builds it; ident is what get_id() returned.
Data(sync_type, name, ident, args, kwargs) ==
    [k \in DataKeys(sync_type, args, kwargs) |->
        CASE k = "method" -> [t |-> "str", seq |-> <<name>>, map |-> EmptyMap]
          [] k = "id" -> [t |-> "int", seq |-> <<ident>>, map |-> EmptyMap]
          [] k = "params" -> IF Len(args) > 0 THEN TupleOf(args)
                                              ELSE DictOf(kwargs)
          [] k = "kwparams" -> DictOf(kwargs)]

\* json.loads(json.dumps(data)): a tuple is written as an array and read
\* as a list; strings, integers and dicts with string keys come back as
\* they were.
Json(data) ==
    [k \in DOMAIN data |->
        IF data[k].t = "tuple" THEN [data[k] EXCEPT !.t = "list"] ELSE data[k]]

\* request.get(key, default)
Get(request, key, default) ==
    IF key \in DOMAIN request THEN request[key] ELSE default

\* dict((str(k), req_kwargs[k]) for k in req_kwargs): the keys are strings
\* already and str() leaves a string as it is.
StrKeys(f) == [k \in DOMAIN f |-> f[k]]

\* An _extract_params without the test for a dict in params.
ExtractParamsPositional(request) ==
    [method |-> Get(request, "method", ListOf(<<>>)).seq,
     args |-> Get(request, "params", ListOf(<<>>)),
     kwargs |-> StrKeys(Get(request, "kwparams", DictOf(EmptyMap)).map)]

\* _extract_params(request)
ExtractParams(request) ==
    LET req_args == Get(request, "params", ListOf(<<>>)) IN
    IF req_args.t = "dict"
    THEN [method |-> Get(request, "method", ListOf(<<>>)).seq,
          args |-> ListOf(<<>>),
          kwargs |-> StrKeys(req_args.map)]
    ELSE [method |-> Get(request, "method", ListOf(<<>>)).seq,
          args |-> req_args,
          kwargs |-> StrKeys(Get(request, "kwparams", DictOf(EmptyMap)).map)]

NoData == [k \in {} |-> 0]
NoOut == [method |-> <<>>, args |-> ListOf(<<>>), kwargs |-> EmptyMap]

proxyFixed == <<configVars, lifeVars, getid_lock, tableVars, known, items,
                readerVars, callVars, queueVars, pumpVars, writers, serve,
                seen, rbuffer, wire, avail, reader, lines, sent>>

\* proxy(sync_type, "m", args, kwargs) builds data; the one thread there is
\* takes the id from get_id().
ProxyCall ==
    /\ proxied.pc = "called"
    /\ id' = IF proxied.sync_type \in {0, 1, 3} THEN id + 1 ELSE id
    /\ proxied' = [proxied EXCEPT
                      !.pc = "built",
                      !.data = Data(proxied.sync_type, "m", id',
                                    proxied.args, proxied.kwargs)]
    /\ UNCHANGED proxyFixed

\* The frame is written as JSON and the peer reads it with json.loads.
Transmit ==
    /\ proxied.pc = "built"
    /\ proxied' = [proxied EXCEPT !.pc = "received",
                                  !.request = Json(proxied.data)]
    /\ UNCHANGED <<proxyFixed, id>>

\* The peer's dispatch_item_single calls _extract_params on the frame.
ExtractCall ==
    /\ proxied.pc = "received"
    /\ proxied' = [proxied EXCEPT !.pc = "extracted",
                                  !.out = ExtractParams(proxied.request)]
    /\ UNCHANGED <<proxyFixed, id>>

InitParams ==
    /\ threaded = FALSE
    /\ scenario = "params"
    /\ Fresh
    /\ NoServe
    /\ NoReader
    /\ NoRequests
    /\ NothingHosted
    /\ callers = <<>>
    /\ writers = <<>>
    /\ \E y \in SyncTypes, a \in ArgLists, kw \in KwMaps :
          proxied = [pc |-> "called", sync_type |-> y, args |-> a,
                     kwargs |-> kw, data |-> NoData, request |-> NoData,
                     out |-> NoOut]

NextParams == ProxyCall \/ Transmit \/ ExtractCall

SpecParams == InitParams /\ [][NextParams]_vars

\* ------------------------------------------------------------- calls
\* The attributes of a Connection: the methods of the class and what
\* __init__ sets.
ConnectionAttrs ==
    {"socket", "get_id", "load_object", "addrequest", "delrequest",
     "dump_object", "dispatch_until_empty", "read_and_dispatch",
     "dispatch_item_threaded", "dispatch_item_single", "proxy", "close",
     "write_line", "read_line", "settimeout", "write_thread", "write",
     "write_now", "read", "serve", "call", "method", "notify", "pipe",
     "handler", "threaded", "connection_status"}

\* getattr(conn, a) finds the attribute; otherwise AttributeError.
HasAttr(a) == a \in ConnectionAttrs

\* The stub the application holds for an object the peer hosts.
StubName == "list_0001"

\* The frame of a call, as data holds it: id is NullId without the key.
CallFrame(name, ident) == [kind |-> "call", method |-> name, id |-> ident]

\* proxy(): if sync_type in [0, 1, 3]: data['id'] = self.get_id()
WithId(sync_type) == sync_type \in {0, 1, 3}

\* The application thread between two calls.
CallerIdle(calls, log) ==
    [pc |-> "idle", by |-> "none", via |-> "none", sync_type |-> 0,
     name |-> "", ident |-> 0, id0 |-> 0, reqs0 |-> {}, q0 |-> 0,
     calls |-> calls, log |-> log]

\* The record of a call that is over: who made it and how, how it ended,
\* the frames it handed to write(), and _id and _requests before and after.
CallLogged(c, outcome, waited) ==
    [by |-> c.by, via |-> c.via, sync_type |-> c.sync_type, name |-> c.name,
     outcome |-> outcome, waited |-> waited,
     frames |-> SubSeq(enqueued', c.q0 + 1, Len(enqueued')),
     id0 |-> c.id0, id1 |-> id', reqs0 |-> c.reqs0, reqs1 |-> requests']

\* write(text): the item joins the queue and the semaphore is released.
WriteFrame(f) ==
    /\ write_thread_queue' = QueueAppend(write_thread_queue, [write_data |-> f])
    /\ write_thread_semaphore' = write_thread_semaphore + 1
    /\ enqueued' = Append(enqueued, f)

callFixed == <<configVars, getid_lock, tableVars, known, items, readerVars,
               callVars, pumpVars, writers, connection_status, sck, events,
               handler_shutdowns, closers, close_log, serve, rbuffer, wire,
               avail, reader, lines, sent>>

\* proxy(sync_type, name, (), {}) up to the Request: data gets the method
\* and, for a call that wants a response, the id get_id() returns; a
\* notification is written at once and proxy() returns None.
Proxy(by, via, sync_type, name) ==
    LET c == [proxied EXCEPT !.by = by, !.via = via,
                             !.sync_type = sync_type, !.name = name,
                             !.id0 = id, !.reqs0 = requests,
                             !.q0 = Len(enqueued)]
    IN /\ id' = IF WithId(sync_type) THEN id + 1 ELSE id
       /\ UNCHANGED <<requests, handles>>
       /\ IF sync_type = 2
          THEN /\ WriteFrame(CallFrame(name, IF WithId(sync_type)
                                             THEN <<id'>> ELSE NullId))
               /\ proxied' = CallerIdle(proxied.calls + 1,
                                 Append(proxied.log,
                                        CallLogged(c, "returned", FALSE)))
          ELSE /\ UNCHANGED queueVars
               /\ proxied' = [c EXCEPT !.pc = "request",
                                       !.ident = IF WithId(sync_type)
                                                 THEN id' ELSE 0]

\* Proxy.__getattr__(name)(): fn looks up self._conn._proxy and calls it
\* with the proxy's sync_type; a Connection without that attribute raises
\* AttributeError there.
ProxyFn(by, sync_type, name) ==
    IF HasAttr("_proxy")
    THEN Proxy(by, "Proxy", sync_type, name)
    ELSE /\ UNCHANGED <<id, requests, handles, queueVars>>
         /\ proxied' = CallerIdle(proxied.calls + 1,
                Append(proxied.log,
                       CallLogged([proxied EXCEPT
                                      !.by = by, !.via = "Proxy",
                                      !.sync_type = sync_type,
                                      !.name = name, !.id0 = id,
                                      !.reqs0 = requests,
                                      !.q0 = Len(enqueued)],
                                  "AttributeError", FALSE)))

\* The application calls conn.call.m(), conn.method.m(), conn.notify.m() or
\* conn.pipe.m().
FnCall ==
    /\ proxied.pc = "idle"
    /\ proxied.calls < MaxProxyCalls
    /\ \E y \in SyncTypes : ProxyFn("app", y, "m")
    /\ UNCHANGED <<callFixed, seen>>

\* The application closes the stub of a remote object, or the stub is
\* finalized: _close() calls self.call.__delete__(), the proxy of
\* sync_type 0 with the name "<name>.__delete__".
StubClose ==
    /\ proxied.pc = "idle"
    /\ proxied.calls < MaxProxyCalls
    /\ ProxyFn("stub", 0, <<StubName, "__delete__">>)
    /\ UNCHANGED <<callFixed, seen>>

\* The application calls conn.proxy(sync_type, "m", (), {}) itself.
ConnProxy ==
    /\ proxied.pc = "idle"
    /\ proxied.calls < MaxProxyCalls
    /\ \E y \in SyncTypes : Proxy("app", "proxy", y, "m")
    /\ UNCHANGED <<callFixed, seen>>

\* Request(self, data): the handle registers itself under its id with
\* auto_close set, and writes the frame.  proxy() returns the handle of a
\* call of sync_type 1.
RequestInit ==
    /\ proxied.pc = "request"
    /\ requests' = requests \cup {proxied.ident}
    /\ handles' = (proxied.ident :> [auto_close |-> TRUE, got |-> 0,
                                     missed |-> 0, closed |-> FALSE,
                                     sync_type |-> proxied.sync_type])
                      @@ handles
    /\ WriteFrame(CallFrame(proxied.name, <<proxied.ident>>))
    /\ UNCHANGED id
    /\ proxied' =
          IF proxied.sync_type = 1
          THEN CallerIdle(proxied.calls + 1,
                          Append(proxied.log,
                                 CallLogged(proxied, "returned", FALSE)))
          ELSE [proxied EXCEPT !.pc = IF proxied.sync_type = 0
                                      THEN "value" ELSE "auto_close"]
    /\ UNCHANGED <<callFixed, seen>>

\* return req.value, for sync_type 0: the thread waits for the response.
RequestValue ==
    /\ proxied.pc = "value"
    /\ handles[proxied.ident].got > 0
    /\ UNCHANGED <<id, requests, handles, queueVars>>
    /\ proxied' = CallerIdle(proxied.calls + 1,
                             Append(proxied.log,
                                    CallLogged(proxied, "returned", TRUE)))
    /\ UNCHANGED <<callFixed, seen>>

\* req.auto_close = False, for sync_type 3; proxy() returns the handle.
SetAutoClose ==
    /\ proxied.pc = "auto_close"
    /\ handles' = [handles EXCEPT ![proxied.ident].auto_close = FALSE]
    /\ UNCHANGED <<id, requests, queueVars>>
    /\ proxied' = CallerIdle(proxied.calls + 1,
                             Append(proxied.log,
                                    CallLogged(proxied, "returned", FALSE)))
    /\ UNCHANGED <<callFixed, seen>>

\* The application closes a handle: it leaves the pending map.
RequestClose ==
    /\ proxied.pc = "idle"
    /\ \E h \in DOMAIN handles :
          /\ handles[h].sync_type # 0
          /\ ~handles[h].closed
          /\ handles' = [handles EXCEPT ![h].closed = TRUE]
          /\ requests' = requests \ {h}
    /\ UNCHANGED <<id, queueVars, proxied>>
    /\ UNCHANGED <<callFixed, seen>>

\* A lookup that takes the oldest pending request whatever the id.
RequestOldest(r) == CHOOSE q \in requests : \A p \in requests : q <= p

\* request = self._requests[item['id']]
RequestOf(r) == r

\* Request.setresponse(item): the handle takes the response and wakes its
\* waiters; with auto_close it leaves the pending map.
RequestSetResponse(h) ==
    /\ requests' = IF handles[h].auto_close THEN requests \ {h} ELSE requests
    /\ handles' = [handles EXCEPT ![h].got = @ + 1]

\* The reading thread dispatches a response frame with id r, r = 0 being
\* an id get_id() never gave: read_and_dispatch hands a dict with a result
\* key to dispatch_item_single, which asserts that the id is pending and
\* hands the frame to the request; the AssertionError for an id that is
\* not pending is caught and logged in read_and_dispatch, which returns
\* False.
DispatchResult ==
    /\ Len(seen) < MaxResponses
    /\ \E r \in 0..id :
          /\ seen' = Append(seen, [id |-> r, pending |-> r \in requests])
          /\ IF r \in requests
             THEN RequestSetResponse(RequestOf(r))
             ELSE /\ UNCHANGED requests
                  /\ handles' = IF r \in DOMAIN handles /\ ~handles[r].closed
                                THEN [handles EXCEPT ![r].missed = @ + 1]
                                ELSE handles
    /\ UNCHANGED <<id, queueVars, proxied>>
    /\ UNCHANGED callFixed

InitProxy ==
    /\ threaded = FALSE
    /\ scenario = "proxy"
    /\ Fresh
    /\ NoReader
    /\ NothingHosted
    /\ requests = {}
    /\ handles = <<>>
    /\ closers = <<>>
    /\ serve = [pc |-> "read", dispatched |-> 0, error |-> "none"]
    /\ seen = <<>>
    /\ callers = <<>>
    /\ writers = <<>>
    /\ proxied = CallerIdle(0, <<>>)

NextProxy ==
    \/ FnCall
    \/ StubClose
    \/ ConnProxy
    \/ RequestInit
    \/ RequestValue
    \/ SetAutoClose
    \/ RequestClose
    \/ DispatchResult

SpecProxy == InitProxy /\ [][NextProxy]_vars

\* ------------------------------------------------------------- properties
\* The texts in the write queue, oldest first.  Spec and SpecObjects run the
\* dispatcher without the pump, so the queue holds every text ever enqueued.
Queued == [k \in DOMAIN write_thread_queue |-> write_thread_queue[k].write_data]

\* The responses enqueued for item i, in queue order.
Replies(i) == SelectSeq(Queued, LAMBDA f : f.by = i)

\* The result responses a request owes for the values v (a sequence).
ResultReplies(i, v) ==
    [j \in DOMAIN v |->
        [result |-> v[j], error |-> NullError, id |-> items[i].id, by |-> i]]

IsErrorReply(i, f) ==
    /\ f.result = NullResult
    /\ f.error # NullError
    /\ f.id = items[i].id
    /\ f.by = i

\* C1 (write ordering): whatever the interleaving of the threads calling
\* write(), the units the socket took, then those left in _wbuffer, then the
\* texts still queued are exactly the texts in the order write() appended
\* them, each text's body followed by its own newline: the pump sends in
\* enqueue order and no two texts are interleaved.
Thm_C1_WriteOrdering ==
    sock \o wbuffer \o Flatten(Queued) = Flatten(enqueued)

\* Two threads' texts went out whole, one taken over from _wbuffer after a
\* send that stopped inside it; and some text was enqueued before the
\* previous writer released the semaphore.
Wit_C1_WriteOrdering ==
    /\ Len(sock) >= 4
    /\ Len(enqueued) >= 2
    /\ enqueued[1].by # enqueued[2].by
    /\ Len(wbuffer) = 1

\* C2 (notification silence): no text in the write queue answers an item
\* whose id is absent or null, whatever its handler did.
Thm_C2_NotificationSilence ==
    \A k \in DOMAIN Queued : items[Queued[k].by].id # NullId

\* A notification whose generator yielded and then raised has finished, and
\* so has one that named an unknown object.
Wit_C2_NotificationSilence ==
    /\ \E i \in DOMAIN items :
          /\ items[i].id = NullId
          /\ items[i].outcome = "generator_raised"
          /\ Len(items[i].yielded) >= 1
          /\ items[i].pc = "done"
    /\ \E i \in DOMAIN items :
          /\ items[i].id = NullId
          /\ items[i].outcome = "invalid_object"

\* C3 (pipe multiplicity): a request with an id whose generator yielded N
\* values and returned has exactly N responses in the queue, each with its
\* id and a null error, the results in the order of the yields.
Thm_C3_PipeMultiplicity ==
    \A i \in DOMAIN items :
        (items[i].outcome = "exhausted" /\ items[i].id # NullId)
            => Replies(i) = ResultReplies(i, items[i].yielded)

\* Threaded: a generator yielded twice and returned, and another request's
\* response was enqueued between its two responses.
Wit_C3_PipeMultiplicity ==
    /\ threaded
    /\ \E i \in DOMAIN items :
          /\ items[i].outcome = "exhausted"
          /\ items[i].id # NullId
          /\ Len(items[i].yielded) = 2
          /\ Len(Queued) = 3
          /\ Queued[1].by = i
          /\ Queued[2].by # i
          /\ Queued[3].by = i

\* C8 (one reply per call): a request with an id that is not a __delete__,
\* whose target resolved and whose method is no generator, never has two
\* responses, and once dispatched has exactly one: the value and a null
\* error when the handler returned a serializable value; a null result and
\* an error text when the lookup failed, the handler raised or the value
\* could not be serialized.
PlainCall(i) ==
    /\ items[i].form = "method"
    /\ items[i].id # NullId
    /\ items[i].meth # "__delete__"
    /\ GetMethod(items[i].meth) # "generator"
    /\ items[i].outcome # "invalid_object"

Thm_C9_GeneratorFailure ==
    \A i \in DOMAIN items :
        (items[i].outcome = "generator_raised" /\ items[i].id # NullId)
            => LET k == Len(items[i].yielded) IN
               /\ Len(Replies(i)) = k + 1
               /\ SubSeq(Replies(i), 1, k) = ResultReplies(i, items[i].yielded)
               /\ IsErrorReply(i, Replies(i)[k + 1])

\* A generator with an id yielded two values and then raised.
Wit_C9_GeneratorFailure ==
    \E i \in DOMAIN items :
        /\ items[i].outcome = "generator_raised"
        /\ items[i].id # NullId
        /\ Len(items[i].yielded) = 2
        /\ items[i].pc = "done"

\* C7 (invalid object identifier), as claimed: a request with an id whose
\* dotted method names an object that is not in the table has exactly one
\* response, with its id, a null result and an error.
Cex_C7_InvalidObject ==
    \A i \in DOMAIN items :
        (items[i].outcome = "invalid_object" /\ items[i].id # NullId)
            => /\ Len(Replies(i)) = 1
               /\ IsErrorReply(i, Replies(i)[1])

\* C10 (batch independence), as claimed: once the reader is through with a
\* frame, every element of every frame it read has been dispatched.
Cex_C10_BatchIndependence ==
    (pending = 0 /\ ReaderFree) => Len(items) = received

\* C5 (hosted-object idempotence), as claimed, for runs without __delete__:
\* every __remoteobject__ hint enqueued for the object carries the same name
\* and the table holds exactly one entry for the object.
Cex_C5_HostedIdempotence ==
    LET hints == {Queued[k].result : k \in
                     {j \in DOMAIN Queued :
                         Queued[j].result.kind = "__remoteobject__"}}
        entries == {n \in DOMAIN objects : objects[n] = "A"}
    IN (\A i \in DOMAIN items : items[i].meth # "__delete__")
           => /\ Cardinality(hints) <= 1
              /\ Cardinality(entries) <= 1
              /\ \A h \in hints : entries = {<<h.cls, h.n>>}

\* C6 (deletion protocol): a "<name>.__delete__" whose _dispatch_delete found
\* the name in the table called _shutdown once, and when it is over the name
\* is not in the table, also when _shutdown raised; no __delete__ ever has a
\* response in the queue, with or without an id.
Thm_C6_Deletion ==
    \A i \in DOMAIN items :
        items[i].meth = "__delete__" =>
            /\ Replies(i) = <<>>
            /\ (items[i].present = "yes" /\ items[i].pc \in Terminal) =>
                  /\ items[i].shut = 1
                  /\ items[i].obj \notin DOMAIN objects

\* A __delete__ with an id whose _shutdown raised is over and removed the
\* entry.
Wit_C6_Deletion ==
    \E i \in DOMAIN items :
        /\ items[i].meth = "__delete__"
        /\ items[i].id # NullId
        /\ items[i].shutdown_raised
        /\ items[i].outcome = "deleted"
        /\ items[i].pc = "done"

\* C4 (id allocation): the ids returned are pairwise distinct, each is
\* greater than every id returned by a call that was over when its call
\* began, and the first is 1.
Thm_C4_IdAllocation ==
    /\ \A a, b \in DOMAIN returned :
          a # b => returned[a].value # returned[b].value
    /\ \A a \in DOMAIN returned : returned[a].value > returned[a].floor
    /\ returned # <<>> => returned[1].value = 1

\* Two threads took turns: three calls are over, the first two by different
\* threads.
Wit_C4_IdAllocation ==
    /\ Len(returned) >= 3
    /\ returned[1].by # returned[2].by
    /\ \E t \in DOMAIN callers : callers[t].pc = "load"

\* C11 (close is idempotent): a call of close() that found the status closed
\* when it began returned without enqueuing an abort item, without calling
\* the handler's _shutdown, without touching the socket, and left the status
\* closed.
Thm_C11_CloseIdempotent ==
    \A e \in close_log :
        e.entry = "closed" => (e.did = {} /\ e.exit = "closed")

\* A thread closed the connection and then called close() again.
Wit_C11_CloseIdempotent ==
    \E e, f \in close_log :
        /\ e.by = f.by
        /\ e.call < f.call
        /\ e.entry = "open"
        /\ "status" \in e.did
        /\ f.entry = "closed"

\* C12 (teardown of hosted objects), as claimed: once a call of close() has
\* returned, the hosted-objects table is empty.
Cex_C12_Teardown ==
    close_log # {} => DOMAIN objects = {}

Thm_C14_NoIoAfterClose ==
    [][connection_status = "closed" => (sock' = sock /\ handles' = handles)]_vars

\* The status is closed, the pump had not acknowledged the abort when the
\* wait of close() ended, it then took a text off the queue and died on the
\* closed socket, and a text was enqueued after that.
Wit_C14_NoIoAfterClose ==
    /\ connection_status = "closed"
    /\ \E e \in close_log : "abort" \in e.did /\ ~e.acked
    /\ pump = "dead"
    /\ \E k \in DOMAIN write_thread_queue :
          "write_data" \in DOMAIN write_thread_queue[k]

\* C15 (serve terminates on EOF), as claimed, its second half: while no end
\* of stream was met serve() keeps reading, so when serve() has left its
\* loop the last thing it met was the end of the stream.
Cex_C15_ServeUntilEof ==
    serve.pc = "raised" => seen[Len(seen)] \in StreamEnd

\* C16 (a bad frame never closes the connection), as claimed: as long as the
\* stream has not ended, after a malformed frame serve() is still in its
\* loop and the status is open.
Cex_C16_BadFrame ==
    ((\E k \in DOMAIN seen : seen[k] \in Malformed)
        /\ (\A k \in DOMAIN seen : seen[k] \notin StreamEnd))
        => (serve.pc = "read" /\ connection_status = "open")


\* The frames of the messages m[k], m[k+1], ... one after the other.
RECURSIVE Frames(_, _)
Frames(m, k) == IF k > Len(m) THEN <<>> ELSE Frame(m[k]) \o Frames(m, k + 1)

\* C19: framing round trip.  The messages the peer wrote framed reach the
\* reader in chunks of any size; blocking read_line calls return the
\* messages written, in the order written and each once, and what the
\* reader holds (the read buffer, or the line being collected inside a
\* call) followed by what has not been received yet is exactly the frames
\* of the messages not yet returned.
Thm_C19_FramingRoundTrip ==
    /\ Len(lines) <= Len(sent)
    /\ \A k \in DOMAIN lines : lines[k].text = sent[k]
    /\ (IF reader.pc = "idle" THEN rbuffer ELSE reader.sb) \o avail \o wire
          = Frames(sent, Len(lines) + 1)

\* Two lines were returned, the second one already in the read buffer when
\* the first was returned, and it is a two-byte character.
Wit_C19_FramingRoundTrip ==
    /\ scenario = "read_line"
    /\ Len(lines) >= 2
    /\ lines[1].left
    /\ lines[2].text = <<"e_acute">>

\* C17: dispatch_until_empty never blocks.  Whatever has arrived on the
\* socket and whatever the read buffer holds, the thread inside a call of
\* dispatch_until_empty() is never waiting for bytes of the peer.
Cex_C17_NeverBlocks == ~(reader.call = "drain" /\ reader.pc = "waiting")

\* C18: dispatch_until_empty drains the buffer.  With a peer that writes
\* requests only, no call of dispatch_until_empty() returns while the read
\* buffer holds a complete line.
Cex_C18_DrainsBuffer ==
    (\A k \in DOMAIN sent : Dispatchable(sent[k]))
        => \A k \in DOMAIN lines : lines[k].call = "drain" => ~lines[k].left

\* C20: parameter encoding round trip.  For every args and kwargs, each
\* possibly empty, the frame proxy() builds has args in params and kwargs in
\* kwparams when args is not empty (kwparams only when kwargs is not empty
\* either), kwargs in params when args is empty and kwargs is not, and
\* neither key when both are empty; and _extract_params of that frame, as
\* the peer reads it, gives back the method, args and kwargs.
Thm_C20_ParamsRoundTrip ==
    LET a == proxied.args
        kw == proxied.kwargs
        data == proxied.data
    IN /\ proxied.pc \in {"built", "received", "extracted"} =>
            /\ Len(a) > 0 =>
                  /\ "params" \in DOMAIN data
                  /\ data["params"].t # "dict"
                  /\ data["params"].seq = a
                  /\ "kwparams" \in DOMAIN data <=> DOMAIN kw # {}
                  /\ "kwparams" \in DOMAIN data =>
                        (data["kwparams"].t = "dict"
                            /\ data["kwparams"].map = kw)
            /\ (Len(a) = 0 /\ DOMAIN kw # {}) =>
                  /\ "params" \in DOMAIN data
                  /\ data["params"].t = "dict"
                  /\ data["params"].map = kw
                  /\ "kwparams" \notin DOMAIN data
            /\ (Len(a) = 0 /\ DOMAIN kw = {}) =>
                  {"params", "kwparams"} \cap DOMAIN data = {}
       /\ proxied.pc = "extracted" =>
            /\ proxied.out.method = <<"m">>
            /\ proxied.out.args.t = "list"
            /\ proxied.out.args.seq = a
            /\ proxied.out.kwargs = kw

\* A call with keyword arguments only went through _extract_params.
Wit_C20_ParamsRoundTrip ==
    /\ proxied.pc = "extracted"
    /\ Len(proxied.args) = 0
    /\ DOMAIN proxied.kwargs = KwKeys
    /\ proxied.request["params"].t = "dict"

\* What C21 says of one finished call: with sync_type 0, 1 or 3 it handed
\* one frame to write() and the frame carries the id get_id() gave then;
\* with sync_type 2 it handed one frame without an id to write(), left _id
\* and _requests as they were and did not wait.
CallModes(e) ==
    /\ e.sync_type \in {0, 1, 3} =>
          /\ Len(e.frames) = 1
          /\ e.id1 = e.id0 + 1
          /\ e.frames[1].id = <<e.id1>>
    /\ e.sync_type = 2 =>
          /\ Len(e.frames) = 1
          /\ e.frames[1].id = NullId
          /\ e.id1 = e.id0
          /\ e.reqs1 = e.reqs0
          /\ ~e.waited

\* C21: call modes and ids.  Every call the application made through a
\* proxy (conn.call, conn.method, conn.notify, conn.pipe) and that is over
\* emitted one frame, with a fresh id exactly for sync_type 0, 1 and 3, and
\* the notification changed neither _id nor _requests and did not wait.
Cex_C21_CallModes ==
    \A k \in DOMAIN proxied.log :
        (proxied.log[k].by = "app" /\ proxied.log[k].via = "Proxy")
            => CallModes(proxied.log[k])

\* C22: stub finalization.  Every close of the stub of a remote object that
\* is over handed to write() one frame with the method "<name>.__delete__"
\* and without an id, and did not wait for a response.
Cex_C22_StubFinalization ==
    \A k \in DOMAIN proxied.log :
        proxied.log[k].by = "stub" =>
            /\ Len(proxied.log[k].frames) = 1
            /\ proxied.log[k].frames[1].method = <<StubName, "__delete__">>
            /\ proxied.log[k].frames[1].id = NullId
            /\ ~proxied.log[k].waited

\* C23: pipe handle lifetime.  The handle of a call of sync_type 3 that the
\* caller has not closed is in the pending map, and no response with its id
\* was dropped, however the calling thread and the reading thread
\* interleave.
Cex_C23_PipeLifetime ==
    \A h \in DOMAIN handles :
        (handles[h].sync_type = 3 /\ ~handles[h].closed)
            => (h \in requests /\ handles[h].missed = 0)

\* C24: unmatched response.  A step that dispatches a response frame whose
\* id is not pending enqueues nothing, leaves the pending map as it was,
\* gives no handle a response and leaves the connection open and serve()
\* reading; a step that dispatches a response whose id is pending gives the
\* response to the handle registered under that id and to no other,
\* whatever was dispatched before.
Thm_C24_UnmatchedResponse ==
    [][seen' # seen =>
          LET r == seen'[Len(seen')].id IN
          /\ \A h \in DOMAIN handles :
                handles'[h].got = handles[h].got
                    + (IF h = r /\ r \in requests THEN 1 ELSE 0)
          /\ r \notin requests =>
                /\ enqueued' = enqueued
                /\ write_thread_queue' = write_thread_queue
                /\ requests' = requests
                /\ connection_status' = "open"
                /\ serve' = serve]_vars

\* Two requests were pending; the response to the second was dispatched
\* first, then a response with an id that is not pending, then the response
\* to the first.
Wit_C24_UnmatchedResponse ==
    /\ scenario = "proxy"
    /\ Len(seen) >= 3
    /\ seen[1] = [id |-> 2, pending |-> TRUE]
    /\ seen[2] = [id |-> 0, pending |-> FALSE]
    /\ seen[3] = [id |-> 1, pending |-> TRUE]
    /\ handles[1].got = 1
    /\ handles[2].got = 1

\* C25: emitted names are hosted.  Without threads, whenever a dispatch is
\* about to write a response with a __remoteobject__ hint, the name in the
\* hint is a key of the hosted-objects table.
Cex_C25_EmittedNameHosted ==
    ~threaded =>
        \A i \in DOMAIN items :
            items[i].pc = "dump_send" => items[i].name \in DOMAIN objects

\* The frames of the lines the calls logged in l returned, one after the
\* other; a call that returned '' returned no line when the peer writes
\* no empty message.
RECURSIVE ReturnedFrames(_)
ReturnedFrames(l) ==
    IF l = <<>> THEN <<>>
    ELSE (IF Head(l).text = <<>> THEN <<>> ELSE Encode(Head(l).text) \o <<NL>>)
            \o ReturnedFrames(Tail(l))

\* C26: no received byte is lost.  With a peer that writes no empty
\* message, between two reads the frames the reads returned, then the read
\* buffer, then the bytes no recv() has taken yet are all the bytes the
\* peer wrote, in order; that is, the bytes received are the frames
\* returned followed by the read buffer.
Cex_C26_NoByteLost ==
    (reader.pc = "idle" /\ \A k \in DOMAIN sent : sent[k] # <<>>)
        => ReturnedFrames(lines) \o rbuffer \o avail \o wire
              = Frames(sent, 1)

\* The calls of close(), over or under way, that did step x so far.
CloseCallsThatDid(x) ==
    Cardinality({e \in close_log : x \in e.did})
        + Cardinality({c \in DOMAIN closers :
                          closers[c].pc # "idle" /\ x \in closers[c].did})

\* C27: concurrent close.  However the threads that call close() interleave,
\* the handler's _shutdown is invoked at most once, at most one abort item
\* is enqueued and at most one call goes on to shut the socket down and
\* close it.
Cex_C27_ConcurrentClose ==
    /\ handler_shutdowns <= 1
    /\ CloseCallsThatDid("abort") <= 1
    /\ CloseCallsThatDid("socket") <= 1

\* The texts of the write_data items of queue q, in order.
RECURSIVE QueuedData(_)
QueuedData(q) ==
    IF q = <<>> THEN <<>>
    ELSE (IF "write_data" \in DOMAIN Head(q)
          THEN <<Head(q).write_data>> ELSE <<>>) \o QueuedData(Tail(q))

\* The semaphore counts no more than the items in the queue, and the pump
\* that has acquired it finds an item.
SemaphoreWithinQueue ==
    /\ write_thread_semaphore <= Len(write_thread_queue)
    /\ pump = "pop" => write_thread_queue # <<>>

\* C28 as stated: the semaphore never exceeds the queue, the pump that
\* acquired it finds an item, and, with one thread calling close(), once
\* the pump has terminated no text handed to write() before the abort item
\* is still in the queue in front of it.
Cex_C28_PumpInvariant ==
    /\ SemaphoreWithinQueue
    /\ (pump \in {"exited", "dead"}
            /\ \A c \in DOMAIN closers :
                  c # 1 => (closers[c].pc = "idle" /\ closers[c].calls = 0))
          => \A j, k \in DOMAIN write_thread_queue :
                (j < k /\ "abort" \in DOMAIN write_thread_queue[k])
                    => "write_data" \notin DOMAIN write_thread_queue[j]

\* What the pump wrote or holds to write is the beginning of what was
\* handed to write(): no text was taken twice or out of order.
TakenInOrder ==
    LET taken == sock \o wbuffer
        all == Flatten(enqueued)
    IN Len(taken) <= Len(all) /\ taken = SubSeq(all, 1, Len(taken))

\* C28, amended: the semaphore never exceeds the queue and the pump that
\* acquired it finds an item; no text handed to write() is taken twice or
\* out of order; and when the pump takes an abort item and terminates,
\* every text handed to write() before that item has been taken once: what
\* is left is behind the abort item.  (Texts still queued when close()
\* gives up its wait of one second may never be taken.)
Thm_C28_PumpInvariant ==
    /\ [](SemaphoreWithinQueue /\ TakenInOrder)
    /\ [][(pump = "pop" /\ pump' = "exited") =>
             /\ "abort" \in DOMAIN Head(write_thread_queue)
             /\ Flatten(enqueued) =
                   sock \o wbuffer
                        \o Flatten(QueuedData(Tail(write_thread_queue)))]_vars

\* The pump took two texts and then the abort item, and terminated with
\* nothing left in the queue.
Wit_C28_PumpInvariant ==
    /\ scenario = "close"
    /\ pump = "exited"
    /\ Len(enqueued) >= 2
    /\ write_thread_queue = <<>>
    /\ Flatten(enqueued) = sock \o wbuffer
=============================================================================
